---- MODULE Spec2Model ----
(***************************************************************************)
(* The streaming pipeline of main.go: producer -> step -> step -> sink,    *)
(* with the two error streams of the steps fanned in by Merge.  Every      *)
(* goroutine is a process with a program position; an unbuffered channel   *)
(* operation is one joint step of the sender and the receiver.             *)
(***************************************************************************)
EXTENDS Integers, Sequences, FiniteSets, Bags, TLC

(* ---------------------------------------------------------------- bounds *)
MaxLen == 3

MaxStreams == 2

MaxFeed == 2

(* ------------------------------------------------------------- constants *)
limit == 2

source == <<"FOO", "BAR", "BAX">>

Stages == {1, 2}

NoString == ""

NilError == "<nil>"

(* ------------------------------------------------------------ transforms *)
ToLower(s) ==
  CASE s = "FOO" -> "foo"
    [] s = "BAR" -> "bar"
    [] s = "BAX" -> "bax"
    [] OTHER -> s

Title(s) ==
  CASE s = "foo" -> "Foo"
    [] s = "bar" -> "Bar"
    [] s = "bax" -> "Bax"
    [] OTHER -> s

Ok(v) == [ok |-> TRUE, val |-> v]

Fail(s) == [ok |-> FALSE, val |-> "oh no: " \o s]

transformA(s) == Ok(ToLower(s))

transformB(s) == IF s = "foo" THEN Fail(s) ELSE Ok(Title(s))

(* step is generic in fn.  The outcomes fn may have on s: that of the     *)
(* transform main passes to the step, that of the transform without its  *)
(* failure (line 152), and a failure.                                    *)
fn(st, s) ==
  IF st = 1 THEN {transformA(s), Fail(s)}
            ELSE {transformB(s), Ok(Title(s)), Fail(s)}

(* -------------------------------------------------------------- channels *)
readStream == "readStream"

outputChannel(st) == IF st = 1 THEN "step1results" ELSE "step2results"

errorChannel(st) == IF st = 1 THEN "step1errors" ELSE "step2errors"

inputChannel(st) == IF st = 1 THEN readStream ELSE outputChannel(1)

allErrors == "allErrors"

(* the i-th channel a caller other than main passes to Merge *)
CallerChannel(i) == "c" \o ToString(i)

(* the channels of main's pipeline *)
MainChannels ==
  {readStream, allErrors} \cup {outputChannel(st) : st \in Stages}
                          \cup {errorChannel(st) : st \in Stages}

Channels == MainChannels \cup {CallerChannel(i) : i \in 1..MaxStreams}

VARIABLES
  strings,    \* producer: the input slice
  idx,        \* producer: index of the next item of the range loop
  pcP,        \* producer goroutine: "select" | "done"
  emitted,    \* the values received from the producer's channel, in order
  cancels,    \* who has called cancel; ctx is done iff somebody has
  closedBy,   \* per channel: the goroutines that called close on it, in order
  sent,       \* per channel: the bag of values received from it
  pcS,        \* per stage, the coordinating goroutine's position
  item,       \* per stage, the item s read at line 84
  sem,        \* per stage, sem1's count of permits held
  workers,    \* per stage, the bag of running worker goroutines of line 92
  cs,         \* Merge: the input channels
  pcF,        \* Merge: per input, the output goroutine's position
  nF,         \* Merge: per input, the value n held by the range loop
  wg,         \* Merge: the WaitGroup counter
  pcC,        \* Merge: the closer goroutine: "wait" | "done"
  pcK,        \* sink: "select" | "returnCancelled" | "returnDone"
  streams,    \* a caller of Merge: per input channel, the values it sends
  feedIdx,    \* a caller of Merge: per input channel, the next value's index
  panicked    \* a goroutine panicked: the process is dead

vars == <<strings, idx, pcP, emitted, cancels, closedBy, sent, pcS, item, sem,
          workers, cs, pcF, nF, wg, pcC, pcK, streams, feedIdx, panicked>>

callerVars == <<streams, feedIdx>>

prodVars == <<strings, idx, pcP, emitted>>

loopVars == <<pcS, item>>

mergeVars == <<cs, pcF, nF, wg, pcC>>

(* ------------------------------------------------------- shared notions *)
Done == cancels # {}

IsClosed(c) == closedBy[c] # <<>>

Alive == ~panicked

(* mutant: a flag that every call flips *)
cancelFunc_Toggle(who) == cancels' = IF cancels = {} THEN {who} ELSE {}


cancelFunc(who) == cancels' = cancels \cup {who}

(* close(c) by goroutine g; closing a closed channel panics *)
close(c, g) ==
  /\ closedBy' = [closedBy EXCEPT ![c] = Append(@, g)]
  /\ panicked' = IsClosed(c)

(* a value v passes over channel c *)
Deliver(c, v) == sent' = [sent EXCEPT ![c] = @ (+) SetToBag({v})]

(* ---------------------------------------------------------------- Init *)
Inputs == {[i \in 1..n |-> source[((i - 1) % Len(source)) + 1]] : n \in 0..MaxLen}

Init ==
  /\ strings \in Inputs
  /\ idx = 1
  /\ pcP = "select"
  /\ emitted = <<>>
  /\ cancels = {}
  /\ closedBy = [c \in Channels |-> <<>>]
  /\ sent = [c \in Channels |-> EmptyBag]
  /\ pcS = [st \in Stages |-> "select"]
  /\ item = [st \in Stages |-> NoString]
  /\ sem = [st \in Stages |-> 0]
  /\ workers = [st \in Stages |-> EmptyBag]
  /\ cs = <<errorChannel(1), errorChannel(2)>>
  /\ pcF = [f \in 1..2 |-> "range"]
  /\ nF = [f \in 1..2 |-> NilError]
  /\ wg = 2
  /\ pcC = "wait"
  /\ pcK = "select"
  /\ streams = <<>>
  /\ feedIdx = <<>>
  /\ panicked = FALSE

(* ------------------------------------------------------------- producer *)
(* line 84, the receiving side: the stage loop takes s from its input *)
StepRecv(st, v) ==
  /\ pcS' = [pcS EXCEPT ![st] = "acquire1"]
  /\ item' = [item EXCEPT ![st] = v]

(* mutant: the loop index advances by two, every other item is skipped *)
ProducerSend_Skips ==
  /\ Alive
  /\ pcP = "select"
  /\ idx <= Len(strings)
  /\ ~IsClosed(readStream)
  /\ pcS[1] = "select"
  /\ idx' = idx + 2
  /\ StepRecv(1, strings[idx])
  /\ Deliver(readStream, strings[idx])
  /\ emitted' = Append(emitted, strings[idx])
  /\ UNCHANGED <<callerVars, strings, pcP, cancels, closedBy, sem, workers, mergeVars, pcK,
                 panicked>>

(* line 30: outChannel <- s, received by the first step *)
ProducerSend ==
  /\ Alive
  /\ pcP = "select"
  /\ idx <= Len(strings)
  /\ IF IsClosed(readStream)
       THEN /\ panicked' = TRUE
            /\ UNCHANGED <<idx, emitted, loopVars, sent>>
       ELSE /\ pcS[1] = "select"
            /\ idx' = idx + 1
            /\ StepRecv(1, strings[idx])
            /\ Deliver(readStream, strings[idx])
            /\ emitted' = Append(emitted, strings[idx])
            /\ UNCHANGED panicked
  /\ UNCHANGED <<callerVars, strings, pcP, cancels, closedBy, sem, workers, mergeVars, pcK>>

(* lines 28-29, then the deferred close of line 21 *)
ProducerCtxDone ==
  /\ Alive
  /\ pcP = "select"
  /\ idx <= Len(strings)
  /\ Done
  /\ pcP' = "done"
  /\ close(readStream, "producer")
  /\ UNCHANGED <<callerVars, strings, idx, emitted, cancels, sent, loopVars, sem, workers,
                 mergeVars, pcK>>

(* the range loop of line 23 ends, then the deferred close of line 21 *)
ProducerExhausted ==
  /\ Alive
  /\ pcP = "select"
  /\ idx > Len(strings)
  /\ pcP' = "done"
  /\ close(readStream, "producer")
  /\ UNCHANGED <<callerVars, strings, idx, emitted, cancels, sent, loopVars, sem, workers,
                 mergeVars, pcK>>

(* ----------------------------------------------------------------- step *)
StepName(st) == IF st = 1 THEN "step1" ELSE "step2"

(* lines 82-83: ctx is done; the break leaves the select only, and the for *)
(* loop of line 80 goes round again                                        *)
StepCtxDone(st) ==
  /\ Alive
  /\ pcS[st] = "select"
  /\ Done
  /\ UNCHANGED vars

(* mutant: on the closed input the goroutine returns at once, without the *)
(* Acquire of line 105                                                    *)
StepRecvClosed_Returns(st) ==
  /\ Alive
  /\ pcS[st] = "select"
  /\ IsClosed(inputChannel(st))
  /\ pcS' = [pcS EXCEPT ![st] = "closeErrors"]
  /\ UNCHANGED <<callerVars, prodVars, cancels, closedBy, sent, item, sem, workers,
                 mergeVars, pcK, panicked>>

(* line 84 with ok = false: the input channel is closed *)
StepRecvClosed(st) ==
  /\ Alive
  /\ pcS[st] = "select"
  /\ IsClosed(inputChannel(st))
  /\ pcS' = [pcS EXCEPT ![st] = "acquireAll"]
  /\ UNCHANGED <<callerVars, prodVars, cancels, closedBy, sent, item, sem, workers,
                 mergeVars, pcK, panicked>>

(* mutant: Acquire that never looks at the count of free permits *)
AcquireOk_NoLimit(st, n) == TRUE

(* sem1.Acquire(ctx, n) returns nil: n permits are free *)
AcquireOk(st, n) == limit - sem[st] >= n

(* sem1.Acquire(ctx, n) returns ctx.Err(): ctx is done.  With ctx done and *)
(* n permits free the semaphore may do either.                             *)
AcquireErr(st, n) == Done

(* line 87 succeeds, line 92 starts the worker *)
StepDispatch(st) ==
  /\ Alive
  /\ pcS[st] = "acquire1"
  /\ AcquireOk(st, 1)
  /\ sem' = [sem EXCEPT ![st] = @ + 1]
  /\ workers' = [workers EXCEPT ![st] =
                   @ (+) SetToBag({[pc |-> "run", s |-> item[st]]})]
  /\ pcS' = [pcS EXCEPT ![st] = "select"]
  /\ item' = [item EXCEPT ![st] = NoString]
  /\ UNCHANGED <<callerVars, prodVars, cancels, closedBy, sent, mergeVars, pcK, panicked>>

(* lines 87-90: Acquire fails, the break leaves the select only *)
StepAcquireFailed(st) ==
  /\ Alive
  /\ pcS[st] = "acquire1"
  /\ AcquireErr(st, 1)
  /\ pcS' = [pcS EXCEPT ![st] = "select"]
  /\ item' = [item EXCEPT ![st] = NoString]
  /\ UNCHANGED <<callerVars, prodVars, cancels, closedBy, sent, sem, workers, mergeVars,
                 pcK, panicked>>

(* mutant: on the closed input the step returns without draining the pool *)
StepDrain_NoWait(st) ==
  /\ Alive
  /\ pcS[st] = "acquireAll"
  /\ pcS' = [pcS EXCEPT ![st] = "closeErrors"]
  /\ UNCHANGED <<callerVars, prodVars, cancels, closedBy, sent, item, sem, workers,
                 mergeVars, pcK, panicked>>

(* line 105 succeeds: the whole pool is taken, line 108 returns *)
StepDrain(st) ==
  /\ Alive
  /\ pcS[st] = "acquireAll"
  /\ AcquireOk(st, limit)
  /\ sem' = [sem EXCEPT ![st] = @ + limit]
  /\ pcS' = [pcS EXCEPT ![st] = "closeErrors"]
  /\ UNCHANGED <<callerVars, prodVars, cancels, closedBy, sent, item, workers, mergeVars,
                 pcK, panicked>>

(* mutant: the step cancels the context when its last Acquire fails *)
StepDrainFailed_Cancels(st) ==
  /\ Alive
  /\ pcS[st] = "acquireAll"
  /\ AcquireErr(st, limit)
  /\ pcS' = [pcS EXCEPT ![st] = "closeErrors"]
  /\ cancelFunc(StepName(st))
  /\ UNCHANGED <<callerVars, prodVars, closedBy, sent, item, sem, workers,
                 mergeVars, pcK, panicked>>

(* lines 105-108: Acquire fails, line 108 returns all the same *)
StepDrainFailed(st) ==
  /\ Alive
  /\ pcS[st] = "acquireAll"
  /\ AcquireErr(st, limit)
  /\ pcS' = [pcS EXCEPT ![st] = "closeErrors"]
  /\ UNCHANGED <<callerVars, prodVars, cancels, closedBy, sent, item, sem, workers,
                 mergeVars, pcK, panicked>>

(* mutant: both deferred closes close outputChannel *)
StepCloseErrors_ClosesOutput(st) ==
  /\ Alive
  /\ pcS[st] = "closeErrors"
  /\ close(outputChannel(st), StepName(st))
  /\ pcS' = [pcS EXCEPT ![st] = "closeOutput"]
  /\ UNCHANGED <<callerVars, prodVars, cancels, sent, item, sem, workers, mergeVars, pcK>>

(* the deferred close of line 78 runs first *)
StepCloseErrors(st) ==
  /\ Alive
  /\ pcS[st] = "closeErrors"
  /\ close(errorChannel(st), StepName(st))
  /\ pcS' = [pcS EXCEPT ![st] = "closeOutput"]
  /\ UNCHANGED <<callerVars, prodVars, cancels, sent, item, sem, workers, mergeVars, pcK>>

(* then the deferred close of line 77 *)
StepCloseOutput(st) ==
  /\ Alive
  /\ pcS[st] = "closeOutput"
  /\ close(outputChannel(st), StepName(st))
  /\ pcS' = [pcS EXCEPT ![st] = "done"]
  /\ UNCHANGED <<callerVars, prodVars, cancels, sent, item, sem, workers, mergeVars, pcK>>

(* --------------------------------------------------------------- worker *)
Running(st) == BagToSet(workers[st])

(* worker goroutine w goes on as goroutine v *)
Becomes(st, w, v) ==
  workers' = [workers EXCEPT ![st] = (@ (-) SetToBag({w})) (+) SetToBag({v})]

(* the send returned; the deferred sem1.Release(1) of line 94 runs and the *)
(* goroutine ends                                                          *)
Returns(st, w) ==
  /\ workers' = [workers EXCEPT ![st] = @ (-) SetToBag({w})]
  /\ sem' = [sem EXCEPT ![st] = @ - 1]

(* mutant: a failure of fn(s) makes the step goroutine return *)
WorkerInvoke_FailStops(st) ==
  /\ Alive
  /\ \E w \in Running(st) :
       /\ w.pc = "run"
       /\ \E r \in fn(st, w.s) :
            /\ Becomes(st, w, [pc |-> IF r.ok THEN "sendOutput" ELSE "sendError",
                               s |-> r.val])
            /\ pcS' = IF r.ok THEN pcS ELSE [pcS EXCEPT ![st] = "closeErrors"]
  /\ UNCHANGED <<callerVars, prodVars, cancels, closedBy, sent, item, sem, mergeVars,
                 pcK, panicked>>

(* mutant: sem1.Release(1) is called right after fn(s), before the send *)
WorkerInvoke_Releases(st) ==
  /\ Alive
  /\ \E w \in Running(st) :
       /\ w.pc = "run"
       /\ \E r \in fn(st, w.s) :
            Becomes(st, w, [pc |-> IF r.ok THEN "sendOutput" ELSE "sendError",
                            s |-> r.val])
  /\ sem' = [sem EXCEPT ![st] = @ - 1]
  /\ UNCHANGED <<callerVars, prodVars, cancels, closedBy, sent, pcS, item, mergeVars,
                 pcK, panicked>>

(* lines 95-98: the sleep and fn(s) *)
WorkerInvoke(st) ==
  /\ Alive
  /\ \E w \in Running(st) :
       /\ w.pc = "run"
       /\ \E r \in fn(st, w.s) :
            Becomes(st, w, [pc |-> IF r.ok THEN "sendOutput" ELSE "sendError",
                            s |-> r.val])
  /\ UNCHANGED <<callerVars, prodVars, cancels, closedBy, sent, loopVars, sem, mergeVars,
                 pcK, panicked>>

(* line 101 in the first step: outputChannel <- result, received by the *)
(* second step at line 84                                                *)
WorkerSendToStep(st) ==
  /\ Alive
  /\ st + 1 \in Stages
  /\ ~IsClosed(outputChannel(st))
  /\ pcS[st + 1] = "select"
  /\ \E w \in Running(st) :
       /\ w.pc = "sendOutput"
       /\ StepRecv(st + 1, w.s)
       /\ Deliver(outputChannel(st), w.s)
       /\ Returns(st, w)
  /\ UNCHANGED <<callerVars, prodVars, cancels, closedBy, mergeVars, pcK, panicked>>

(* line 101 in the last step: outputChannel <- result, received by the *)
(* sink at line 51 with ok = true, logged at line 53                    *)
WorkerSendToSink(st) ==
  /\ Alive
  /\ st + 1 \notin Stages
  /\ ~IsClosed(outputChannel(st))
  /\ pcK = "select"
  /\ \E w \in Running(st) :
       /\ w.pc = "sendOutput"
       /\ Deliver(outputChannel(st), w.s)
       /\ Returns(st, w)
  /\ UNCHANGED <<callerVars, prodVars, cancels, closedBy, loopVars, mergeVars, pcK,
                 panicked>>

(* line 123, the receiving side: the range loop takes n from c *)
OutputRecv(f, v) ==
  /\ pcF' = [pcF EXCEPT ![f] = "select"]
  /\ nF' = [nF EXCEPT ![f] = v]

(* mutant: no else at line 100, the worker that sent the error goes on to *)
(* send its result as well                                                *)
WorkerSendError_FallsThrough(st) ==
  /\ Alive
  /\ ~IsClosed(errorChannel(st))
  /\ \E w \in Running(st), f \in DOMAIN cs :
       /\ w.pc = "sendError"
       /\ cs[f] = errorChannel(st)
       /\ pcF[f] = "range"
       /\ OutputRecv(f, w.s)
       /\ Deliver(errorChannel(st), w.s)
       /\ Becomes(st, w, [pc |-> "sendOutput", s |-> NoString])
  /\ UNCHANGED <<callerVars, prodVars, cancels, closedBy, loopVars, sem, cs, wg, pcC,
                 pcK, panicked>>

(* line 99: errorChannel <- err, received by Merge's range loop *)
WorkerSendError(st) ==
  /\ Alive
  /\ ~IsClosed(errorChannel(st))
  /\ \E w \in Running(st), f \in DOMAIN cs :
       /\ w.pc = "sendError"
       /\ cs[f] = errorChannel(st)
       /\ pcF[f] = "range"
       /\ OutputRecv(f, w.s)
       /\ Deliver(errorChannel(st), w.s)
       /\ Returns(st, w)
  /\ UNCHANGED <<callerVars, prodVars, cancels, closedBy, loopVars, cs, wg, pcC, pcK,
                 panicked>>

(* lines 99 and 101 on a closed channel: the send panics *)
WorkerSendClosed(st) ==
  /\ Alive
  /\ \E w \in Running(st) :
       /\ \/ w.pc = "sendOutput" /\ IsClosed(outputChannel(st))
          \/ w.pc = "sendError" /\ IsClosed(errorChannel(st))
       /\ Becomes(st, w, [pc |-> "panic", s |-> w.s])
  /\ panicked' = TRUE
  /\ UNCHANGED <<callerVars, prodVars, cancels, closedBy, sent, loopVars, sem, mergeVars,
                 pcK>>

(* ---------------------------------------------------------------- Merge *)
(* the range of line 123 ends on the closed input; deferred wg.Done *)
OutputRangeEnd ==
  \E f \in DOMAIN cs :
    /\ Alive
    /\ pcF[f] = "range"
    /\ IsClosed(cs[f])
    /\ pcF' = [pcF EXCEPT ![f] = "done"]
    /\ wg' = wg - 1
    /\ UNCHANGED <<callerVars, prodVars, cancels, closedBy, sent, loopVars, sem, workers,
                   cs, nF, pcC, pcK, panicked>>

(* mutant: no test of err at line 47, the sink cancels on nil too *)
SinkRecvErr_NoNilCheck(e) == cancelFunc("sink")

(* lines 46-50, the receiving side: the sink takes err from errors, logs it *)
(* and cancels when it is not nil                                           *)
SinkRecvErr(e) ==
  IF e # NilError THEN cancelFunc("sink") ELSE UNCHANGED cancels

(* line 125, the sending side: n has gone out, the range loop goes on *)
OutputSent(f) ==
  /\ Deliver(allErrors, nF[f])
  /\ pcF' = [pcF EXCEPT ![f] = "range"]
  /\ nF' = [nF EXCEPT ![f] = NilError]

(* line 125: out <- n, received by the sink at line 46 *)
OutputSend ==
  \E f \in DOMAIN cs :
    /\ Alive
    /\ pcF[f] = "select"
    /\ IF IsClosed(allErrors)
         THEN /\ panicked' = TRUE
              /\ UNCHANGED <<pcF, nF, sent, cancels>>
         ELSE /\ pcK = "select"
              /\ SinkRecvErr(nF[f])
              /\ OutputSent(f)
              /\ UNCHANGED panicked
    /\ UNCHANGED <<callerVars, prodVars, closedBy, loopVars, sem, workers, cs,
                   wg, pcC, pcK>>

(* mutant: the select of line 124 returns whether or not ctx is done *)
OutputCtxDone_Unguarded ==
  \E f \in DOMAIN cs :
    /\ Alive
    /\ pcF[f] = "select"
    /\ pcF' = [pcF EXCEPT ![f] = "done"]
    /\ wg' = wg - 1
    /\ UNCHANGED <<callerVars, prodVars, cancels, closedBy, sent, loopVars,
                   sem, workers, cs, nF, pcC, pcK, panicked>>

(* lines 126-127: ctx is done, return; deferred wg.Done *)
OutputCtxDone ==
  \E f \in DOMAIN cs :
    /\ Alive
    /\ pcF[f] = "select"
    /\ Done
    /\ pcF' = [pcF EXCEPT ![f] = "done"]
    /\ wg' = wg - 1
    /\ UNCHANGED <<callerVars, prodVars, cancels, closedBy, sent, loopVars, sem, workers,
                   cs, nF, pcC, pcK, panicked>>

(* mutant: close(out) without wg.Wait *)
MergeClose_NoWait ==
  /\ Alive
  /\ pcC = "wait"
  /\ pcC' = "done"
  /\ close(allErrors, "Merge")
  /\ UNCHANGED <<callerVars, prodVars, cancels, sent, loopVars, sem, workers, cs, pcF, nF,
                 wg, pcK>>

(* lines 138-139: wg.Wait returns, close(out) *)
MergeClose ==
  /\ Alive
  /\ pcC = "wait"
  /\ wg = 0
  /\ pcC' = "done"
  /\ close(allErrors, "Merge")
  /\ UNCHANGED <<callerVars, prodVars, cancels, sent, loopVars, sem, workers, cs, pcF, nF,
                 wg, pcK>>

(* ------------------------------------------------------ sink and main *)
(* lines 41-43: ctx is done, the sink returns; main returns after it at *)
(* line 176 and its deferred cancel of line 164 runs                    *)
SinkCtxDone ==
  /\ Alive
  /\ pcK = "select"
  /\ Done
  /\ pcK' = "returnCancelled"
  /\ cancelFunc("main")
  /\ UNCHANGED <<callerVars, prodVars, closedBy, sent, loopVars, sem, workers, mergeVars,
                 panicked>>

(* line 46 on the closed errors channel: the receive yields nil *)
SinkRecvErrClosed ==
  /\ Alive
  /\ pcK = "select"
  /\ IsClosed(allErrors)
  /\ SinkRecvErr(NilError)
  /\ UNCHANGED <<callerVars, prodVars, closedBy, sent, loopVars, sem, workers, mergeVars,
                 pcK, panicked>>

(* lines 51, 54-56: the values channel is closed, the sink returns; main *)
(* returns after it at line 176 and its deferred cancel of line 164 runs *)
SinkValuesClosed ==
  /\ Alive
  /\ pcK = "select"
  /\ IsClosed(outputChannel(2))
  /\ pcK' = "returnDone"
  /\ cancelFunc("main")
  /\ UNCHANGED <<callerVars, prodVars, closedBy, sent, loopVars, sem, workers, mergeVars,
                 panicked>>

(* ----------------------------------------------------------------- Next *)
Next ==
  \/ ProducerSend
  \/ ProducerCtxDone
  \/ ProducerExhausted
  \/ \E st \in Stages :
       \/ StepCtxDone(st)
       \/ StepRecvClosed(st)
       \/ StepDispatch(st)
       \/ StepAcquireFailed(st)
       \/ StepDrain(st)
       \/ StepDrainFailed(st)
       \/ StepCloseErrors(st)
       \/ StepCloseOutput(st)
       \/ WorkerInvoke(st)
       \/ WorkerSendToStep(st)
       \/ WorkerSendToSink(st)
       \/ WorkerSendError(st)
       \/ WorkerSendClosed(st)
  \/ OutputRangeEnd
  \/ OutputSend
  \/ OutputCtxDone
  \/ MergeClose
  \/ SinkCtxDone
  \/ SinkRecvErrClosed
  \/ SinkValuesClosed

Spec == Init /\ [][Next]_vars

(* every step but the idle turns of a select changes the state for good, *)
(* so a fairly scheduled run goes on until no goroutine can move          *)
FairSpec == Spec /\ WF_vars(Next)

(* ------------------------------------------------- Merge, any caller *)
(* Merge(ctx, cs...) called with any number of channels by a caller that  *)
(* sends a finite stream on each input and closes it, receives from the   *)
(* merged channel, and may cancel ctx.                                    *)
Values == <<"oh no: a", "oh no: b">>

Stream(i, n) == [j \in 1..n |-> Values[((i + j) % Len(Values)) + 1]]

InitMerge ==
  /\ \E N \in 0..MaxStreams :
       /\ cs = [i \in 1..N |-> CallerChannel(i)]
       /\ streams \in {[i \in 1..N |-> Stream(i, n[i])] :
                         n \in [1..N -> 0..MaxFeed]}
       /\ feedIdx = [i \in 1..N |-> 1]
       /\ pcF = [f \in 1..N |-> "range"]
       /\ nF = [f \in 1..N |-> NilError]
       /\ wg = N
  /\ pcC = "wait"
  /\ cancels = {}
  /\ closedBy = [c \in Channels |-> <<>>]
  /\ sent = [c \in Channels |-> EmptyBag]
  /\ panicked = FALSE
  /\ strings = <<>>
  /\ idx = 1
  /\ emitted = <<>>
  /\ pcP = "none"
  /\ pcS = [st \in Stages |-> "none"]
  /\ item = [st \in Stages |-> NoString]
  /\ sem = [st \in Stages |-> 0]
  /\ workers = [st \in Stages |-> EmptyBag]
  /\ pcK = "none"

(* the caller sends the next value of input f, received at line 123 *)
CallerSend ==
  \E f \in DOMAIN cs :
    /\ Alive
    /\ feedIdx[f] <= Len(streams[f])
    /\ ~IsClosed(cs[f])
    /\ pcF[f] = "range"
    /\ OutputRecv(f, streams[f][feedIdx[f]])
    /\ Deliver(cs[f], streams[f][feedIdx[f]])
    /\ feedIdx' = [feedIdx EXCEPT ![f] = @ + 1]
    /\ UNCHANGED <<streams, prodVars, cancels, closedBy, loopVars, sem,
                   workers, cs, wg, pcC, pcK, panicked>>

(* the caller closes input f after its last value *)
CallerClose ==
  \E f \in DOMAIN cs :
    /\ Alive
    /\ feedIdx[f] > Len(streams[f])
    /\ ~IsClosed(cs[f])
    /\ close(cs[f], "caller")
    /\ UNCHANGED <<callerVars, prodVars, cancels, sent, loopVars, sem, workers,
                   mergeVars, pcK>>

(* line 125: out <- n, received by the caller *)
OutputSendCaller ==
  \E f \in DOMAIN cs :
    /\ Alive
    /\ pcF[f] = "select"
    /\ IF IsClosed(allErrors)
         THEN /\ panicked' = TRUE
              /\ UNCHANGED <<pcF, nF, sent>>
         ELSE /\ OutputSent(f)
              /\ UNCHANGED panicked
    /\ UNCHANGED <<callerVars, prodVars, cancels, closedBy, loopVars, sem,
                   workers, cs, wg, pcC, pcK>>

(* the caller cancels ctx *)
CallerCancel ==
  /\ Alive
  /\ ~Done
  /\ cancelFunc("caller")
  /\ UNCHANGED <<callerVars, prodVars, closedBy, sent, loopVars, sem, workers,
                 mergeVars, pcK, panicked>>

NextMerge ==
  \/ CallerSend
  \/ CallerClose
  \/ CallerCancel
  \/ OutputSendCaller
  \/ OutputRangeEnd
  \/ OutputCtxDone
  \/ MergeClose

MergeSpec == InitMerge /\ [][NextMerge]_vars

(* as for FairSpec; the caller need not cancel *)
FairMergeSpec == MergeSpec /\ WF_vars(NextMerge)

(* =============================================================== claims *)
(* the goroutine that makes a channel (lines 15, 67, 68, 119) owns it *)
Owner(c) ==
  CASE c = readStream -> "producer"
    [] c = allErrors -> "Merge"
    [] OTHER -> IF c \in {outputChannel(1), errorChannel(1)}
                  THEN StepName(1) ELSE StepName(2)

(* the transform invocations of a stage in flight: the workers that hold *)
(* a permit of sem1                                                       *)
Active(st) == BagCardinality(workers[st])

IsPrefix(a, b) == Len(a) <= Len(b) /\ a = SubSeq(b, 1, Len(a))

(* the workers of a stage that are at one of the positions pcs *)
At(st, pcs) == [w \in {x \in Running(st) : x.pc \in pcs} |-> workers[st][w]]

(* the transform invocations that have failed so far *)
NumFailed ==
  LET n(st) == BagCardinality(sent[errorChannel(st)])
                 + BagCardinality(At(st, {"sendError"}))
  IN n(1) + n(2)

SinkReturned == pcK \in {"returnCancelled", "returnDone"}

AllTerminated ==
  /\ pcP = "done"
  /\ \A st \in Stages : pcS[st] = "done" /\ workers[st] = EmptyBag
  /\ \A f \in DOMAIN cs : pcF[f] = "done"
  /\ pcC = "done"
  /\ SinkReturned

(* no goroutine can take a step that changes the state *)
Quiescent == ~ENABLED <<Next>>_vars

(* the results of a run without failures *)
Results == [i \in DOMAIN strings |-> Title(ToLower(strings[i]))]

BagOfSeq(q) == [v \in {q[i] : i \in DOMAIN q} |->
                  Cardinality({i \in DOMAIN q : q[i] = v})]

(* the bag of all values the caller sends on the inputs of Merge *)
Merged ==
  LET at == {p \in (DOMAIN streams) \X (1..MaxFeed) : p[2] <= Len(streams[p[1]])}
  IN [v \in {streams[p[1]][p[2]] : p \in at} |->
        Cardinality({p \in at : streams[p[1]][p[2]] = v})]

(* C1: no worker of a stage is sending, or has sent, on the stage's output *)
(* or error channel once the stage's goroutine has closed that channel.    *)
C1_NoSendOnClosed ==
  \A st \in Stages : \A w \in Running(st) :
    /\ w.pc = "sendOutput" => ~IsClosed(outputChannel(st))
    /\ w.pc = "sendError" => ~IsClosed(errorChannel(st))
    /\ w.pc # "panic"

(* C2: when exactly one transform invocation has failed, the sink does not *)
(* return before it has received that error and called cancel.             *)
C2_ErrorReachesSink ==
  (SinkReturned /\ Alive /\ NumFailed = 1)
    => /\ "sink" \in cancels
       /\ BagCardinality(sent[allErrors]) = 1

(* C3: as long as no transform has failed the sink does not return on a *)
(* cancellation; when it returns on the closed results channel it has    *)
(* received one result per input item; and the run does not come to rest *)
(* before it has returned.                                               *)
C3_Exhaustion ==
  (NumFailed = 0 /\ Alive)
    => /\ pcK # "returnCancelled"
       /\ pcK = "returnDone" => sent[outputChannel(2)] = BagOfSeq(Results)
       /\ Quiescent => pcK = "returnDone"

(* the same under fair scheduling: a run in which no transform fails *)
(* reaches the sink's return on the closed results channel           *)
C3_Terminates == <>(pcK = "returnDone" \/ NumFailed > 0)

(* the sink returned "done" with all MaxLen results, nothing having failed *)
C3_Witness ==
  /\ pcK = "returnDone"
  /\ NumFailed = 0
  /\ "sink" \notin cancels
  /\ Len(strings) = MaxLen
  /\ BagCardinality(sent[outputChannel(2)]) = MaxLen

(* C4: in every stage at most limit transform invocations are in flight. *)
C4_BoundedParallelism == \A st \in Stages : Active(st) <= limit

(* limit invocations run and the stage waits in Acquire with the next item *)
C4_Witness ==
  \E st \in Stages :
    /\ Active(st) = limit
    /\ pcS[st] = "acquire1"
    /\ \A w \in Running(st) : w.pc = "run"

(* C5: after cancellation the run does not come to rest before every *)
(* goroutine of the pipeline has terminated.                          *)
C5_NoLeakAfterCancel == (Done /\ Quiescent) => AllTerminated

(* C6: the run does not come to rest before the sink has returned. *)
C6_SinkReturns == Quiescent => SinkReturned

(* C7: every channel is closed at most once, and only by its owner. *)
C7_SingleCloser ==
  \A c \in MainChannels : closedBy[c] \in {<<>>, <<Owner(c)>>}

(* a cancelled run in which every channel has been closed *)
C7_Witness ==
  /\ "sink" \in cancels
  /\ \A c \in MainChannels : closedBy[c] = <<Owner(c)>>

(* C8: Merge closes the merged channel, for any number of inputs; when it *)
(* does so without a cancellation every input is closed and the merged    *)
(* channel has carried exactly the bag of the values sent on the inputs.  *)
C8_MergeComplete ==
  /\ []((IsClosed(allErrors) /\ ~Done)
          => /\ sent[allErrors] = Merged
             /\ \A f \in DOMAIN cs : IsClosed(cs[f]))
  /\ <>IsClosed(allErrors)

(* MaxStreams full inputs were merged and the merged channel is closed *)
C8_Witness ==
  /\ Len(cs) = MaxStreams
  /\ IsClosed(allErrors)
  /\ ~Done
  /\ BagCardinality(sent[allErrors]) = MaxStreams * MaxFeed

(* C9: when the merged channel is closed every output goroutine of Merge *)
(* has returned, so none can send on it.                                 *)
C9_CloseAfterForwarders ==
  IsClosed(allErrors) => /\ \A f \in DOMAIN cs : pcF[f] = "done"
                         /\ wg = 0

(* the merged channel is closed after a cancellation, having carried an error *)
C9_Witness ==
  /\ IsClosed(allErrors)
  /\ "sink" \in cancels
  /\ sent[allErrors] # EmptyBag

(* C10: what the producer has emitted is a prefix of its input, and the *)
(* whole input once the producer has returned without cancellation.     *)
C10_ProducerPrefix ==
  /\ IsPrefix(emitted, strings)
  /\ (pcP = "done" /\ ~Done) => emitted = strings

(* the producer returned on cancellation having emitted a proper prefix *)
C10_Witness ==
  /\ pcP = "done"
  /\ Done
  /\ 0 < Len(emitted)
  /\ Len(emitted) < Len(strings)

(* C11: among the goroutines of the pipeline only the sink cancels. Every  *)
(* step that changes the cancellation state is a step of the sink at its   *)
(* select: the receive of an error from the merged channel (line 46-49),   *)
(* or its return, after which main's deferred cancel runs (line 164). No   *)
(* step of the producer, of a stage, of a worker or of Merge changes it.   *)
C11_OnlySinkCancels ==
  [][cancels' # cancels =>
       /\ pcK = "select"
       /\ OutputSend \/ SinkCtxDone \/ SinkValuesClosed
       /\ cancels' \ cancels \subseteq {"sink", "main"}]_vars

(* the sink has cancelled while the producer and both stages still run *)
C11_Witness ==
  /\ cancels = {"sink"}
  /\ pcP = "select"
  /\ \A st \in Stages : pcS[st] \in {"select", "acquire1"}

C13_StageExitsOnCancel ==
  (Done /\ Quiescent) =>
    \A st \in Stages :
      /\ pcS[st] = "done"
      /\ IsClosed(errorChannel(st))
      /\ IsClosed(outputChannel(st))

(* C14, as claimed: a worker gives its permit back as soon as fn(s) has   *)
(* returned, so a worker at its send holds none: while the stage has not  *)
(* taken the pool for itself, the permits out are those of the workers    *)
(* that have not finished fn(s).                                          *)
C14_NoPermitWhileSending ==
  \A st \in Stages :
    pcS[st] \in {"select", "acquire1", "acquireAll"} =>
      sem[st] = BagCardinality(At(st, {"run"}))

(* C14, amended: a worker holds its permit until it returns, that is      *)
(* until its send of the result or of the error has been received (the    *)
(* deferred Release of line 94): the permits out are one for each worker  *)
(* goroutine alive, sending ones included, and the whole pool on top once *)
(* the stage has drained it.                                              *)
C14_PermitHeldUntilReturn ==
  \A st \in Stages :
    /\ sem[st] - Active(st) \in {0, limit}
    /\ pcS[st] \in {"select", "acquire1", "acquireAll"} => sem[st] = Active(st)

(* both permits of the first stage are held by workers blocked at their *)
(* sends while the stage waits in Acquire with an item in hand          *)
C14_Witness ==
  /\ pcS[1] = "acquire1"
  /\ sem[1] = limit
  /\ BagCardinality(At(1, {"sendOutput", "sendError"})) = limit

(* C15: once the context is done a stage dispatches nothing more: no step *)
(* taken with the context done starts a worker goroutine, an item read    *)
(* after the trigger is dropped.                                          *)
C15_NoDispatchAfterCancel ==
  [][Done => \A st \in Stages : Active(st)' <= Active(st)]_vars

(* the items a stage has read are all accounted for by a result or an *)
(* error it has sent                                                   *)
Accounted(st) ==
  BagCardinality(sent[inputChannel(st)]) =
    BagCardinality(sent[outputChannel(st)]) + BagCardinality(sent[errorChannel(st)])

(* C16: a failed transform does not stop its stage. The step in which an  *)
(* invocation fails leaves the stage's loop, its pending item and every   *)
(* channel as they were; and in a run where the sink never cancelled and  *)
(* returned on the closed values channel, the producer has sent the whole *)
(* input and each stage has sent a result or an error for every item it   *)
(* read, whatever failures there were among them.                         *)
C16_ErrorDoesNotStopStage ==
  /\ [][NumFailed' > NumFailed => UNCHANGED <<pcS, item, closedBy, sent>>]_vars
  /\ []((pcK = "returnDone" /\ "sink" \notin cancels) =>
          /\ sent[readStream] = BagOfSeq(strings)
          /\ \A st \in Stages : Accounted(st))

(* the first item failed in the first stage, the sink did not cancel, and *)
(* the last item went through both stages to the sink                     *)
C16_Witness ==
  /\ pcK = "returnDone"
  /\ "sink" \notin cancels
  /\ Len(strings) = MaxLen
  /\ BagIn("oh no: " \o strings[1], sent[errorChannel(1)])
  /\ BagIn(Title(ToLower(strings[Len(strings)])), sent[outputChannel(2)])

(* what is left in the stage of the items equal to v that it has read: the *)
(* item in the loop's hand, the workers running fn on it or sending or     *)
(* having failed to send one of its outcomes, and the outcomes sent        *)
Traces(st, v) ==
  LET of(r) ==
        CopiesIn([pc |-> IF r.ok THEN "sendOutput" ELSE "sendError", s |-> r.val],
                 workers[st])
        + CopiesIn([pc |-> "panic", s |-> r.val], workers[st])
        + CopiesIn(r.val, sent[IF r.ok THEN outputChannel(st) ELSE errorChannel(st)])
      good == {r \in fn(st, v) : r.ok}
      bad == {r \in fn(st, v) : ~r.ok}
  IN (IF pcS[st] = "acquire1" /\ item[st] = v THEN 1 ELSE 0)
     + CopiesIn([pc |-> "run", s |-> v], workers[st])
     + (IF good = {} THEN 0 ELSE of(CHOOSE r \in good : TRUE))
     + (IF bad = {} THEN 0 ELSE of(CHOOSE r \in bad : TRUE))

(* C17: every item a stage reads gives rise to at most one worker and to  *)
(* at most one value sent, on the output channel or on the error channel  *)
(* and never on both: for each value, the workers on it and the outcomes  *)
(* of it that were sent are no more than the times it was read, and the   *)
(* stage holds and has sent nothing but these.                            *)
C17_AtMostOnce ==
  \A st \in Stages :
    /\ \A v \in BagToSet(sent[inputChannel(st)]) :
         Traces(st, v) <= CopiesIn(v, sent[inputChannel(st)])
    /\ (IF pcS[st] = "acquire1" THEN 1 ELSE 0) + Active(st)
          + BagCardinality(sent[outputChannel(st)])
          + BagCardinality(sent[errorChannel(st)])
       <= BagCardinality(sent[inputChannel(st)])

(* the first stage has read the whole input, sent an error for one item *)
(* and results for the others, and has exited                           *)
C17_Witness ==
  /\ Len(strings) = MaxLen
  /\ pcS[1] = "done"
  /\ BagCardinality(sent[inputChannel(1)]) = MaxLen
  /\ BagCardinality(sent[errorChannel(1)]) = 1
  /\ BagCardinality(sent[outputChannel(1)]) = MaxLen - 1

(* C18: while the context has never been cancelled, a stage that is past  *)
(* its last Acquire (closing, or having closed, its channels) has no      *)
(* worker left: every worker it started has had its send received, so     *)
(* every item it read is accounted for and no send can follow the close.  *)
C18_CloseAfterWorkers ==
  \A st \in Stages :
    (~Done /\ pcS[st] \in {"closeErrors", "closeOutput", "done"}) =>
      /\ workers[st] = EmptyBag
      /\ sem[st] = limit
      /\ Accounted(st)

(* with no cancellation the last stage has exited after sending a result *)
(* or an error for each item of the whole input                          *)
C18_Witness ==
  /\ ~Done
  /\ Len(strings) = MaxLen
  /\ pcS[2] = "done"
  /\ BagCardinality(sent[outputChannel(2)]) + BagCardinality(sent[errorChannel(2)])
       + BagCardinality(sent[errorChannel(1)]) = MaxLen

(* C19: the sink cancels only on an error that is not nil. If the sink    *)
(* has cancelled, an error other than nil came over the merged channel;   *)
(* the sink leaves its select only with the context done or the values    *)
(* channel closed, so the nil it gets from the closed errors channel      *)
(* neither cancels nor ends it.                                           *)
C19_CancelOnlyOnError ==
  /\ []("sink" \in cancels =>
          \E e \in BagToSet(sent[allErrors]) : e # NilError)
  /\ [][pcK = "select" /\ pcK' # "select" =>
          Done \/ IsClosed(outputChannel(2))]_vars

(* the errors channel is closed with no error ever sent on it, and the  *)
(* sink is still at its select, the context not cancelled and the values *)
(* channel open                                                          *)
C19_Witness ==
  /\ IsClosed(allErrors)
  /\ sent[allErrors] = EmptyBag
  /\ pcK = "select"
  /\ cancels = {}
  /\ ~IsClosed(outputChannel(2))

====
